---------------------------- MODULE Spec2Model ----------------------------
(***************************************************************************)
(* Model of src/main.py: the exclusive motion state machine                *)
(* (SpheroStateManager), the control loop of main() with its idle          *)
(* watchdog, and the lifecycle of main() around the loop.                  *)
(*                                                                         *)
(* Time: the program only ever uses time.time() in the difference          *)
(* time.time() - last_controll_time, so the model keeps that difference    *)
(* (idle_time, in seconds).  "last_controll_time = time.time()" sets it to *)
(* 0 and the sleep that ends a tick advances it by TickLen.                *)
(***************************************************************************)
EXTENDS Integers, Sequences, FiniteSets, TLC

(* ---------------- program constants (src/main.py:34-38, 297) ----------- *)
BASE_SPEED == 120
MAX_SPEED == 255
ANGULAR_SPEED == 12
MAX_INTERVAL == 60
SKIP_LIMIT == 100

(* ---------------- bounds of the model ---------------------------------- *)
\* seconds that pass between the watchdog checks of two consecutive ticks
TickLen == 30
\* Spec only: number of ticks the environment presses forward and backward
\* together (SpecSkip has no such cap and runs the counter to SKIP_LIMIT)
MaxBothPressed == 1
\* Spec only: the environment presses a rotation button only while the
\* heading is fewer than MaxTurn steps of ANGULAR_SPEED away from 0
MaxTurn == 3
\* SpecTurn only: clockwise ticks of one turn sequence (more than a circle)
MaxCw == 31
\* SpecTurn only: counter-clockwise ticks of one turn sequence, and the
\* clockwise ticks that may precede them
MaxAcw == 3

(* ---------------- SpheroStates (src/main.py:44-49) --------------------- *)
STOP == "STOP"
FORWARD == "FORWARD"
BACKWARD == "BACKWARD"
CW_ROTATE == "CW_ROTATE"
ACW_ROTATE == "ACW_ROTATE"
SpheroStates == {STOP, FORWARD, BACKWARD, CW_ROTATE, ACW_ROTATE}

VARIABLES
  pc,                   \* position of main(): start, scanning, loop, returned, raised
  raised,               \* the exception that left main(), or "none"
  display,              \* display events emitted so far
  state,                \* SpheroStateManager.__state
  angle,                \* heading
  speed,
  idle_time,            \* time.time() - last_controll_time
  skip_press_continue,
  tick,                 \* record of what the last tick read and did
  turns,                \* SpecTurn: the rotation ticks since a heading
  last_call,            \* last call made directly on the state manager
  prev_call             \* the call before it

vars == <<pc, raised, display, state, angle, speed, idle_time,
          skip_press_continue, tick, turns, last_call, prev_call>>

(* ======================================================================= *)
(* SpheroStateManager                                                      *)
(* ======================================================================= *)

\* acquire_controll without the STOP test: any request takes the lock
AcquireControll_Steal(st, req) ==
  IF st = req THEN [state |-> st, ret |-> <<TRUE, FALSE>>]
  ELSE [state |-> req, ret |-> <<TRUE, TRUE>>]

\* acquire_controll that reports a re-affirmation as a change
AcquireControll_Reaffirm(st, req) ==
  IF st = req THEN [state |-> st, ret |-> <<TRUE, TRUE>>]
  ELSE IF st = STOP THEN [state |-> req, ret |-> <<TRUE, TRUE>>]
  ELSE [state |-> st, ret |-> <<FALSE, FALSE>>]

\* acquire_controll(state) -> (acquired, state_changed)
AcquireControll(st, req) ==
  IF st = req THEN [state |-> st, ret |-> <<TRUE, FALSE>>]
  ELSE IF st = STOP THEN [state |-> req, ret |-> <<TRUE, TRUE>>]
  ELSE [state |-> st, ret |-> <<FALSE, FALSE>>]

\* release_controll that returns the previous state but keeps the lock
ReleaseControll_Keep(st) ==
  [state |-> st, ret |-> st, warned |-> (st = STOP)]

\* release_controll that returns the state after the reset
ReleaseControll_RetNew(st) ==
  [state |-> STOP, ret |-> STOP, warned |-> (st = STOP)]

\* release_controll() -> previous state; warns when nothing is held
ReleaseControll(st) ==
  IF st = STOP THEN [state |-> st, ret |-> st, warned |-> TRUE]
  ELSE [state |-> STOP, ret |-> st, warned |-> FALSE]

NoCall ==
  [op |-> "none", arg |-> STOP, pre |-> STOP, acq |-> <<>>, rel |-> STOP,
   warned |-> FALSE]

\* a caller invokes state.acquire_controll(req)
CallAcquire(req) ==
  LET r == AcquireControll(state, req) IN
  /\ pc = "start"
  /\ state' = r.state
  /\ last_call' = [op |-> "acquire", arg |-> req, pre |-> state,
                   acq |-> r.ret, rel |-> STOP, warned |-> FALSE]
  /\ prev_call' = last_call
  /\ UNCHANGED <<pc, raised, display, angle, speed, idle_time,
                 skip_press_continue, tick, turns>>

\* a caller invokes state.release_controll()
CallRelease ==
  LET r == ReleaseControll(state) IN
  /\ pc = "start"
  /\ state' = r.state
  /\ last_call' = [op |-> "release", arg |-> STOP, pre |-> state,
                   acq |-> <<>>, rel |-> r.ret, warned |-> r.warned]
  /\ prev_call' = last_call
  /\ UNCHANGED <<pc, raised, display, angle, speed, idle_time,
                 skip_press_continue, tick, turns>>

(* ======================================================================= *)
(* One tick of the control loop (src/main.py:239-318)                      *)
(* ======================================================================= *)

Buttons == [dash : BOOLEAN, forward : BOOLEAN, backward : BOOLEAN,
            cw : BOOLEAN, acw : BOOLEAN]
NoButtons == [dash |-> FALSE, forward |-> FALSE, backward |-> FALSE,
              cw |-> FALSE, acw |-> FALSE]

\* what can go wrong in a tick: nothing, the button source raises on the
\* first read of the tick, or the toy raises on the first actuator call
Failures == {"none", "button", "actuator"}

NoAcq == [forward |-> <<>>, backward |-> <<>>, cw |-> <<>>, acw |-> <<>>]

\* Python truth value of a tuple: non-empty tuples are true
Truthy(tuple) == Len(tuple) > 0

\* a tick that goes on after an exception instead of breaking
Live_IgnoreExc(s) == ~s.brk

\* the tick is still executing statements of the try body
Live(s) == s.exc = "none" /\ ~s.brk

\* local state at the top of the loop body (lines 240-241)
TickBegin ==
  [state |-> state, angle |-> angle, speed |-> speed, idle |-> idle_time,
   skip |-> skip_press_continue, pressed |-> FALSE, pressed_skip |-> TRUE,
   exc |-> "none", brk |-> FALSE,
   read |-> NoButtons, acq |-> NoAcq, calls |-> <<>>, reset |-> FALSE,
   released |-> FALSE, checked |-> FALSE, idle_check |-> 0,
   turn |-> "none"]

\* ToyUtil.roll_start / roll_stop: the call is issued, and raises when the
\* toy is failing
Actuate(s, call, fail) ==
  LET t == [s EXCEPT !.calls = Append(@, call)] IN
  IF fail = "actuator" THEN [t EXCEPT !.exc = "Exception"] ELSE t

RollStart(by, heading, spd) ==
  [op |-> "roll_start", by |-> by, heading |-> heading, speed |-> spd]
RollStop(heading) ==
  [op |-> "roll_stop", by |-> "release", heading |-> heading, flag |-> FALSE]

\* speed selection that never goes back to BASE_SPEED
DashStep_Sticky(s, b, fail) ==
  IF fail = "button" THEN [s EXCEPT !.exc = "Exception"]
  ELSE IF b.dash
       THEN [s EXCEPT !.read.dash = TRUE, !.pressed = TRUE, !.speed = MAX_SPEED]
       ELSE s

\* lines 243-247: the first button read of the tick, and speed selection
DashStep(s, b, fail) ==
  IF fail = "button" THEN [s EXCEPT !.exc = "Exception"]
  ELSE IF b.dash
       THEN [s EXCEPT !.read.dash = TRUE, !.pressed = TRUE, !.speed = MAX_SPEED]
       ELSE [s EXCEPT !.speed = BASE_SPEED]

\* forward branch that resets last_controll_time on every successful
\* acquisition, re-affirmations included
ForwardStep_Refresh(s, b, fail) ==
  IF ~Live(s) THEN s
  ELSE IF b.forward
  THEN LET r == AcquireControll(s.state, FORWARD)
           t == [s EXCEPT !.read.forward = TRUE, !.pressed = TRUE,
                          !.state = r.state, !.acq.forward = r.ret,
                          !.idle = IF r.ret[1] THEN 0 ELSE @,
                          !.reset = IF r.ret[1] THEN TRUE ELSE @]
       IN Actuate(t, RollStart("forward", t.angle, t.speed), fail)
  ELSE [s EXCEPT !.pressed_skip = FALSE]

\* lines 249-258: forward branch; roll_start is outside the inner if
ForwardStep(s, b, fail) ==
  IF ~Live(s) THEN s
  ELSE IF b.forward
  THEN LET r == AcquireControll(s.state, FORWARD)
           t == [s EXCEPT !.read.forward = TRUE, !.pressed = TRUE,
                          !.state = r.state, !.acq.forward = r.ret,
                          !.idle = IF r.ret[1] /\ r.ret[2] THEN 0 ELSE @,
                          !.reset = IF r.ret[1] /\ r.ret[2] THEN TRUE ELSE @]
       IN Actuate(t, RollStart("forward", t.angle, t.speed), fail)
  ELSE [s EXCEPT !.pressed_skip = FALSE]

\* backward branch that stores the turned heading
BackwardStep_Turn(s, b, fail) ==
  IF ~Live(s) THEN s
  ELSE IF b.backward
  THEN LET r == AcquireControll(s.state, BACKWARD)
           t == [s EXCEPT !.read.backward = TRUE, !.pressed = TRUE,
                          !.state = r.state, !.acq.backward = r.ret,
                          !.idle = IF r.ret[1] /\ r.ret[2] THEN 0 ELSE @,
                          !.reset = IF r.ret[1] /\ r.ret[2] THEN TRUE ELSE @,
                          !.angle = (@ + 180) % 360]
       IN Actuate(t, RollStart("backward", t.angle, t.speed), fail)
  ELSE [s EXCEPT !.pressed_skip = FALSE]

\* lines 260-269: backward branch, heading turned by 180 degrees
BackwardStep(s, b, fail) ==
  IF ~Live(s) THEN s
  ELSE IF b.backward
  THEN LET r == AcquireControll(s.state, BACKWARD)
           t == [s EXCEPT !.read.backward = TRUE, !.pressed = TRUE,
                          !.state = r.state, !.acq.backward = r.ret,
                          !.idle = IF r.ret[1] /\ r.ret[2] THEN 0 ELSE @,
                          !.reset = IF r.ret[1] /\ r.ret[2] THEN TRUE ELSE @]
       IN Actuate(t, RollStart("backward", (t.angle + 180) % 360, t.speed), fail)
  ELSE [s EXCEPT !.pressed_skip = FALSE]

\* clockwise branch without the wrap of the heading
CwStep_NoWrap(s, b, fail) ==
  IF ~Live(s) THEN s
  ELSE IF b.cw
  THEN LET r == AcquireControll(s.state, CW_ROTATE)
           t == [s EXCEPT !.read.cw = TRUE, !.pressed = TRUE,
                          !.state = r.state, !.acq.cw = r.ret]
       IN IF r.ret[1]
          THEN LET u == [t EXCEPT !.idle = IF r.ret[2] THEN 0 ELSE @,
                                  !.reset = IF r.ret[2] THEN TRUE ELSE @,
                                  !.angle = @ + ANGULAR_SPEED,
                                  !.turn = "cw"]
               IN Actuate(u, RollStart("cw", u.angle, 0), fail)
          ELSE t
  ELSE s

\* clockwise branch that turns whether or not the acquisition succeeded
CwStep_Unguarded(s, b, fail) ==
  IF ~Live(s) THEN s
  ELSE IF b.cw
  THEN LET r == AcquireControll(s.state, CW_ROTATE)
           t == [s EXCEPT !.read.cw = TRUE, !.pressed = TRUE,
                          !.state = r.state, !.acq.cw = r.ret]
           u == [t EXCEPT !.idle = IF r.ret[2] THEN 0 ELSE @,
                          !.reset = IF r.ret[2] THEN TRUE ELSE @,
                          !.angle = (@ + ANGULAR_SPEED) % 360,
                          !.turn = "cw"]
       IN Actuate(u, RollStart("cw", u.angle, 0), fail)
  ELSE s

\* lines 271-281: clockwise branch
CwStep(s, b, fail) ==
  IF ~Live(s) THEN s
  ELSE IF b.cw
  THEN LET r == AcquireControll(s.state, CW_ROTATE)
           t == [s EXCEPT !.read.cw = TRUE, !.pressed = TRUE,
                          !.state = r.state, !.acq.cw = r.ret]
       IN IF r.ret[1]
          THEN LET u == [t EXCEPT !.idle = IF r.ret[2] THEN 0 ELSE @,
                                  !.reset = IF r.ret[2] THEN TRUE ELSE @,
                                  !.angle = (@ + ANGULAR_SPEED) % 360,
                                  !.turn = "cw"]
               IN Actuate(u, RollStart("cw", u.angle, 0), fail)
          ELSE t
  ELSE s

\* counter-clockwise branch that adds the step as the clockwise one does
AcwStep_Plus(s, b, fail) ==
  IF ~Live(s) THEN s
  ELSE IF b.acw
  THEN LET r1 == AcquireControll(s.state, ACW_ROTATE) IN
       IF Truthy(r1.ret)
       THEN LET r == AcquireControll(r1.state, ACW_ROTATE)
                t == [s EXCEPT !.read.acw = TRUE, !.pressed = TRUE,
                               !.state = r.state, !.acq.acw = r.ret]
            IN IF r.ret[1]
               THEN LET u == [t EXCEPT !.idle = IF r.ret[2] THEN 0 ELSE @,
                                       !.reset = IF r.ret[2] THEN TRUE ELSE @,
                                       !.angle = (@ + ANGULAR_SPEED) % 360,
                                       !.turn = "acw"]
                    IN Actuate(u, RollStart("acw", u.angle, 0), fail)
               ELSE t
       ELSE [s EXCEPT !.read.acw = TRUE, !.state = r1.state]
  ELSE s

\* lines 283-293: counter-clockwise branch; acquire_controll is called in
\* the condition (its tuple is always true) and again in the body
AcwStep(s, b, fail) ==
  IF ~Live(s) THEN s
  ELSE IF b.acw
  THEN LET r1 == AcquireControll(s.state, ACW_ROTATE) IN
       IF Truthy(r1.ret)
       THEN LET r == AcquireControll(r1.state, ACW_ROTATE)
                t == [s EXCEPT !.read.acw = TRUE, !.pressed = TRUE,
                               !.state = r.state, !.acq.acw = r.ret]
            IN IF r.ret[1]
               THEN LET u == [t EXCEPT !.idle = IF r.ret[2] THEN 0 ELSE @,
                                       !.reset = IF r.ret[2] THEN TRUE ELSE @,
                                       !.angle = (@ - ANGULAR_SPEED) % 360,
                                       !.turn = "acw"]
                    IN Actuate(u, RollStart("acw", u.angle, 0), fail)
               ELSE t
       ELSE [s EXCEPT !.read.acw = TRUE, !.state = r1.state]
  ELSE s

\* skip test that already breaks when the counter reaches the limit
SkipStep_AtLimit(s) ==
  IF ~Live(s) THEN s
  ELSE IF s.pressed_skip
  THEN [s EXCEPT !.skip = @ + 1, !.brk = (s.skip + 1 >= SKIP_LIMIT)]
  ELSE s

\* skip test that counts consecutive ticks: the counter starts again when
\* forward and backward are not both pressed
SkipStep_Reset(s) ==
  IF ~Live(s) THEN s
  ELSE IF s.pressed_skip
  THEN [s EXCEPT !.skip = @ + 1, !.brk = (s.skip + 1 > SKIP_LIMIT)]
  ELSE [s EXCEPT !.skip = 0]

\* lines 295-298: forward and backward both pressed in this tick
SkipStep(s) ==
  IF ~Live(s) THEN s
  ELSE IF s.pressed_skip
  THEN [s EXCEPT !.skip = @ + 1, !.brk = (s.skip + 1 > SKIP_LIMIT)]
  ELSE s

\* lines 300-309: nothing pressed: stop the toy and release the intent
ReleaseStep(s, fail) ==
  IF ~Live(s) THEN s
  ELSE IF ~s.pressed /\ s.state # STOP
  THEN LET t == Actuate(s, RollStop(s.angle), fail) IN
       IF t.exc # "none" THEN t
       ELSE LET r == ReleaseControll(t.state) IN
            [t EXCEPT !.state = r.state, !.released = TRUE,
                      !.idle = 0, !.reset = TRUE]
  ELSE s

\* lines 311-312: the watchdog
WatchdogStep(s) ==
  IF ~Live(s) THEN s
  ELSE [s EXCEPT !.checked = TRUE, !.idle_check = s.idle,
                 !.exc = IF s.idle > MAX_INTERVAL THEN "TimeoutError" ELSE @]

\* line 314: the sleep that ends a tick; dt is the time from this tick's
\* watchdog check to the next tick's (0: the 4 ms sleep, below one second)
SleepStep(s, dt) ==
  IF ~Live(s) THEN s ELSE [s EXCEPT !.idle = @ + dt]

\* the try body, lines 243-314, in program order; each S is the singleton
\* holding the local state after one more statement group
TickBody(b, fail, dt) ==
  LET S1 == {DashStep(TickBegin, b, fail)}
      S2 == {ForwardStep(s, b, fail) : s \in S1}
      S3 == {BackwardStep(s, b, fail) : s \in S2}
      S4 == {CwStep(s, b, fail) : s \in S3}
      S5 == {AcwStep(s, b, fail) : s \in S4}
      S6 == {SkipStep(s) : s \in S5}
      S7 == {ReleaseStep(s, fail) : s \in S6}
      S8 == {WatchdogStep(s) : s \in S7}
      S9 == {SleepStep(s, dt) : s \in S8}
  IN CHOOSE s \in S9 : TRUE

\* how the tick left the loop body
\*   continue  : next iteration
\*   skip      : break at line 298
\*   exception : except Exception ... break, lines 316-318
\*   timeout   : TimeoutError, a BaseException, passes the except clause
ExitOf(s) ==
  IF s.exc = "TimeoutError" THEN "timeout"
  ELSE IF s.exc = "Exception" THEN "exception"
  ELSE IF s.brk THEN "skip"
  ELSE "continue"

NoTick ==
  [ran |-> FALSE, exit |-> "continue", fail |-> "none",
   pre |-> STOP, pre_angle |-> 0,
   pre_idle |-> 0, pre_skip |-> 0,
   read |-> NoButtons, acq |-> NoAcq, calls |-> <<>>, reset |-> FALSE,
   released |-> FALSE, checked |-> FALSE, idle_check |-> 0,
   turn |-> "none"]

\* one iteration of "while True", with what follows when it leaves the loop:
\* the with block is left, and the finally clause (lines 325-328) displays
\* Terminated; a TimeoutError then goes on to the caller of main()
Tick(b, fail, dt) ==
  /\ pc = "loop"
  /\ \E s \in {TickBody(b, fail, dt)} : \E x \in {ExitOf(s)} :
       /\ state' = s.state
       /\ angle' = s.angle
       /\ speed' = s.speed
       /\ idle_time' = s.idle
       /\ skip_press_continue' = s.skip
       /\ tick' = [ran |-> TRUE, exit |-> x, fail |-> fail,
                   pre |-> state, pre_angle |-> angle,
                   pre_idle |-> idle_time, pre_skip |-> skip_press_continue,
                   read |-> s.read, acq |-> s.acq, calls |-> s.calls,
                   reset |-> s.reset, released |-> s.released,
                   checked |-> s.checked, idle_check |-> s.idle_check,
                   turn |-> s.turn]
       /\ pc' = CASE x = "continue" -> "loop"
                  [] x = "timeout" -> "raised"
                  [] OTHER -> "returned"
       /\ raised' = IF x = "timeout" THEN "TimeoutError" ELSE raised
       /\ display' = IF x = "continue" THEN display
                     ELSE Append(display, "Terminated")
  /\ UNCHANGED <<last_call, prev_call>>

(* ======================================================================= *)
(* main() around the loop (src/main.py:209-238, 320-328)                   *)
(* ======================================================================= *)

\* lines 210-214: display and GPIO are set up, Scanning is displayed
SetupOk ==
  /\ pc = "start"
  /\ pc' = "scanning"
  /\ display' = Append(display, "Scanning")
  /\ UNCHANGED <<raised, state, angle, speed, idle_time, skip_press_continue,
                 tick, turns, last_call, prev_call>>

\* lines 210-211: DisplayManager() or IOManager() raises (ConnectionError
\* at line 88); nothing is displayed and the error reaches the caller
SetupFail ==
  /\ pc = "start"
  /\ pc' = "raised"
  /\ raised' = "ConnectionError"
  /\ UNCHANGED <<display, state, angle, speed, idle_time, skip_press_continue,
                 tick, turns, last_call, prev_call>>

\* lines 217-238: a toy is found; Running is displayed, the loop state is set
ToyFound ==
  /\ pc = "scanning"
  /\ pc' = "loop"
  /\ display' = Append(display, "Running")
  /\ angle' = 0
  /\ speed' = 0
  /\ state' = STOP
  /\ idle_time' = 0
  /\ skip_press_continue' = 0
  /\ UNCHANGED <<raised, tick, turns, last_call, prev_call>>

\* line 217: scanning or connecting raises something other than
\* ToyNotFoundError: no except clause takes it, the finally clause runs and
\* the error reaches the caller; neither Running nor NotFound is displayed
ConnectFail ==
  /\ pc = "scanning"
  /\ pc' = "raised"
  /\ raised' = "Exception"
  /\ display' = Append(display, "Terminated")
  /\ UNCHANGED <<state, angle, speed, idle_time, skip_press_continue,
                 tick, turns, last_call, prev_call>>

\* lines 217-237: a toy is found and Running is displayed, but waking or
\* preparing it raises: the finally clause runs and the error reaches the
\* caller, before any tick
StartFail ==
  /\ pc = "scanning"
  /\ pc' = "raised"
  /\ raised' = "Exception"
  /\ display' = display \o <<"Running", "Terminated">>
  /\ UNCHANGED <<state, angle, speed, idle_time, skip_press_continue,
                 tick, turns, last_call, prev_call>>

\* the except clause without the finally clause
ToyNotFound_NoFinally ==
  /\ pc = "scanning"
  /\ pc' = "returned"
  /\ display' = display \o <<"NotFound">>
  /\ UNCHANGED <<raised, state, angle, speed, idle_time, skip_press_continue,
                 tick, turns, last_call, prev_call>>

\* lines 320-328: no toy; NotFound, then the finally clause
ToyNotFound ==
  /\ pc = "scanning"
  /\ pc' = "returned"
  /\ display' = display \o <<"NotFound", "Terminated">>
  /\ UNCHANGED <<raised, state, angle, speed, idle_time, skip_press_continue,
                 tick, turns, last_call, prev_call>>

NoTurns == [origin |-> 0, cw |-> 0, acw |-> 0]

Init ==
  /\ pc = "start"
  /\ raised = "none"
  /\ display = <<>>
  /\ state = STOP
  /\ angle = 0
  /\ speed = 0
  /\ idle_time = 0
  /\ skip_press_continue = 0
  /\ tick = NoTick
  /\ turns = NoTurns
  /\ last_call = NoCall
  /\ prev_call = NoCall

(* ---------------- the state manager on its own ------------------------- *)
NextSM ==
  \/ \E req \in SpheroStates : CallAcquire(req)
  \/ CallRelease

SpecSM == Init /\ [][NextSM]_vars

(* ---------------- main() with all five buttons ------------------------- *)
\* number of ANGULAR_SPEED steps between the heading and 0, either way round
Turned ==
  LET n == angle \div ANGULAR_SPEED
      full == 360 \div ANGULAR_SPEED
  IN IF 2 * n <= full THEN n ELSE full - n

\* the environment presses forward and backward together in at most
\* MaxBothPressed ticks, and turns the toy at most MaxTurn steps from 0
Pressable(b) ==
  /\ (b.forward /\ b.backward) => skip_press_continue < MaxBothPressed
  /\ (b.cw \/ b.acw) => Turned < MaxTurn

\* the buttons that matter under a failure: a failing button source raises
\* on the first read, whatever is pressed
ButtonsUnder(fail) == IF fail = "button" THEN {NoButtons} ELSE Buttons

Next ==
  \/ SetupOk
  \/ SetupFail
  \/ ToyFound
  \/ ConnectFail
  \/ StartFail
  \/ ToyNotFound
  \/ \E fail \in Failures : \E b \in ButtonsUnder(fail) :
       Pressable(b) /\ Tick(b, fail, TickLen) /\ UNCHANGED turns

Spec == Init /\ [][Next]_vars

(* ---------------- main() with the forward and backward buttons --------- *)
\* only forward and backward are ever pressed; no cap on pressing both
TranslationOnly(b) == ~b.dash /\ ~b.cw /\ ~b.acw

NextSkip ==
  \/ SetupOk
  \/ SetupFail
  \/ ToyFound
  \/ ConnectFail
  \/ StartFail
  \/ ToyNotFound
  \/ \E fail \in Failures : \E b \in ButtonsUnder(fail) :
       TranslationOnly(b) /\ Tick(b, fail, TickLen) /\ UNCHANGED turns

SpecSkip == Init /\ [][NextSkip]_vars

\* the loop keeps iterating and the scan returns
FairSpecSkip == SpecSkip /\ WF_vars(NextSkip)

(* ---------------- main() with the rotation buttons --------------------- *)
\* turns after a tick that rotated clockwise, counter-clockwise or not at
\* all: a turn sequence is clockwise ticks followed by counter-clockwise
\* ticks, and a clockwise tick after a counter-clockwise one starts the next
\* sequence at the heading it found
TurnsAfter(turn, heading) ==
  CASE turn = "cw" ->
         IF turns.acw > 0 THEN [origin |-> heading, cw |-> 1, acw |-> 0]
         ELSE [turns EXCEPT !.cw = @ + 1]
    [] turn = "acw" -> [turns EXCEPT !.acw = @ + 1]
    [] OTHER -> turns

\* only forward, cw and acw are ever pressed, and the rotation buttons
\* within the lengths of a turn sequence
Turnable(b) ==
  /\ ~b.dash /\ ~b.backward
  /\ b.cw => (turns.acw > 0 \/ turns.cw < MaxCw)
  /\ b.acw => (turns.acw < MaxAcw /\ turns.cw <= MaxAcw)

\* the ticks follow each other within the second: 0 on the watchdog's clock
NextTurn ==
  \/ SetupOk
  \/ SetupFail
  \/ ToyFound
  \/ ConnectFail
  \/ StartFail
  \/ ToyNotFound
  \/ \E fail \in Failures : \E b \in ButtonsUnder(fail) :
       /\ Turnable(b)
       /\ Tick(b, fail, 0)
       /\ turns' = TurnsAfter(tick'.turn, angle)

SpecTurn == Init /\ [][NextTurn]_vars

(* ======================================================================= *)
(* Properties of SpheroStateManager (checked under SpecSM)                 *)
(* ======================================================================= *)

\* C1: while a non-STOP intent X is held, acquire_controll(Y) with Y a
\* different non-STOP intent returns (False, False) and leaves X held.
C1_DeniedWhileHeld ==
  (/\ last_call.op = "acquire"
   /\ last_call.pre # STOP
   /\ last_call.arg \notin {STOP, last_call.pre})
  => (last_call.acq = <<FALSE, FALSE>> /\ state = last_call.pre)

\* FORWARD was acquired and a later request for BACKWARD has been denied
C1_Witness ==
  /\ prev_call.op = "acquire" /\ prev_call.acq = <<TRUE, TRUE>>
  /\ prev_call.arg = FORWARD
  /\ last_call.op = "acquire" /\ last_call.arg = BACKWARD
  /\ last_call.acq = <<FALSE, FALSE>>
  /\ state = FORWARD

\* C8: acquire_controll(X), X non-STOP, called immediately after
\* release_controll() returns (True, True) and leaves X held.
C8_AcquireAfterRelease ==
  (/\ prev_call.op = "release"
   /\ last_call.op = "acquire"
   /\ last_call.arg # STOP)
  => (last_call.acq = <<TRUE, TRUE>> /\ state = last_call.arg)

\* a held intent was released and CW_ROTATE was acquired right after
C8_Witness ==
  /\ prev_call.op = "release" /\ prev_call.pre = FORWARD
  /\ last_call.op = "acquire" /\ last_call.arg = CW_ROTATE
  /\ state = CW_ROTATE

\* C9: acquire_controll(X) while X is already held returns (True, False)
\* and leaves the state unchanged, however often it is repeated.
C9_ReacquireIdempotent ==
  (last_call.op = "acquire" /\ last_call.pre = last_call.arg)
  => (last_call.acq = <<TRUE, FALSE>> /\ state = last_call.pre)

\* BACKWARD has been re-acquired twice in a row while held
C9_Witness ==
  /\ prev_call.op = "acquire" /\ prev_call.arg = BACKWARD
  /\ prev_call.acq = <<TRUE, FALSE>>
  /\ last_call.op = "acquire" /\ last_call.arg = BACKWARD
  /\ last_call.acq = <<TRUE, FALSE>>
  /\ state = BACKWARD

\* C10: release_controll() returns the intent held before the call and
\* leaves STOP held; called while STOP is held it changes nothing, returns
\* STOP and only warns.
C10_ReleaseReturnsPrevious ==
  last_call.op = "release"
  => /\ last_call.rel = last_call.pre
     /\ state = STOP
     /\ last_call.warned <=> (last_call.pre = STOP)

\* release_controll() called while idle, right after a release of ACW_ROTATE
C10_Witness ==
  /\ prev_call.op = "release" /\ prev_call.pre = ACW_ROTATE
  /\ prev_call.rel = ACW_ROTATE
  /\ last_call.op = "release" /\ last_call.pre = STOP
  /\ last_call.rel = STOP /\ last_call.warned
  /\ state = STOP

(* ======================================================================= *)
(* Properties of the control loop                                          *)
(* ======================================================================= *)

IntentOf(by) ==
  CASE by = "forward" -> FORWARD
    [] by = "backward" -> BACKWARD
    [] by = "cw" -> CW_ROTATE
    [] by = "acw" -> ACW_ROTATE
    [] OTHER -> STOP

CallsBy(by) == {i \in 1..Len(tick.calls) : tick.calls[i].by = by}

NoDirectional(b) == ~b.forward /\ ~b.backward /\ ~b.cw /\ ~b.acw

\* C2: a forward (backward) press whose acquisition is denied issues no
\* roll_start for that branch, so every roll_start of a tick is on behalf
\* of the intent held by the state machine.
C2_NoRollWhenDenied ==
  tick.ran =>
    /\ \A by \in {"forward", "backward"} :
         tick.acq[by] = <<FALSE, FALSE>> => CallsBy(by) = {}
    /\ \A i \in 1..Len(tick.calls) :
         tick.calls[i].op = "roll_start" => IntentOf(tick.calls[i].by) = state

\* C3: with an intent held, two consecutive ticks without a directional
\* button, whatever dash does: the first issues roll_stop(heading, False),
\* releases to STOP and resets last_controll_time; the second issues no
\* actuator call and changes no state.
C3_IdleReleasesThenNoop ==
  [][(/\ pc = "loop" /\ pc' = "loop"
      /\ tick.ran /\ tick.fail = "none" /\ tick'.fail = "none"
      /\ tick.pre # STOP
      /\ NoDirectional(tick.read) /\ NoDirectional(tick'.read))
     => (/\ tick.calls = <<RollStop(tick.pre_angle)>>
         /\ state = STOP
         /\ tick.reset
         /\ tick'.calls = <<>>
         /\ ~tick'.reset
         /\ state' = state /\ angle' = angle
         /\ skip_press_continue' = skip_press_continue)]_vars

\* the intent held before the last tick differs from the one held after it
Transition == tick.ran /\ tick.pre # state

\* C5: last_controll_time is reset in a tick if and only if the tick makes
\* a genuine intent transition (an acquisition from STOP, or a release).
C5_ResetIffTransition ==
  tick.ran => (tick.reset <=> Transition)

\* C6: watchdog expiry ends the session cleanly: Terminated is displayed and
\* main returns normally, nothing raised in the loop leaves main.
C6_WatchdogReturnsNormally ==
  (tick.ran /\ tick.exit = "timeout")
  => /\ pc = "returned"
     /\ raised = "none"
     /\ display[Len(display)] = "Terminated"

C12_SpeedFollowsDash ==
  (tick.ran /\ tick.fail # "button") =>
    /\ speed = IF tick.read.dash THEN MAX_SPEED ELSE BASE_SPEED
    /\ \A i \in 1..Len(tick.calls) :
         tick.calls[i].by \in {"forward", "backward"}
           => tick.calls[i].speed = speed

\* dash and forward pressed while CW_ROTATE is held: the forward roll_start
\* carries MAX_SPEED
C12_Witness ==
  /\ tick.ran /\ tick.pre = CW_ROTATE
  /\ tick.read.dash /\ tick.read.forward
  /\ speed = MAX_SPEED
  /\ \E i \in CallsBy("forward") : tick.calls[i].speed = MAX_SPEED

OnlyForward(b) ==
  b.forward /\ ~b.dash /\ ~b.backward /\ ~b.cw /\ ~b.acw

ForwardHold ==
  /\ tick.ran /\ tick.fail = "none"
  /\ OnlyForward(tick.read) /\ tick.pre \in {STOP, FORWARD}

\* C13 as stated, for a hold of any length: no tick of a forward hold ends
\* the loop, so that the release tick with its roll_stop always follows.
C13_HoldOfAnyLength ==
  ForwardHold => pc = "loop"

\* C13 as amended: from STOP, with only forward pressed, the first tick
\* acquires FORWARD with (True, True); every tick of the hold issues exactly
\* one roll_start(heading, BASE_SPEED) and leaves the heading; later ticks of
\* the hold see (True, False); the hold goes on exactly while the watchdog
\* check finds at most MAX_INTERVAL since the first tick, and is ended by
\* the TimeoutError otherwise; the first tick with nothing pressed issues
\* roll_stop(heading, False) once and returns to STOP, and further idle
\* ticks issue nothing.
C13_ForwardHoldRelease ==
  /\ ForwardHold =>
       /\ tick.acq.forward =
            IF tick.pre = STOP THEN <<TRUE, TRUE>> ELSE <<TRUE, FALSE>>
       /\ tick.calls = <<RollStart("forward", tick.pre_angle, BASE_SPEED)>>
       /\ state = FORWARD
       /\ angle = tick.pre_angle
       /\ tick.checked
       /\ tick.idle_check =
            IF tick.pre = STOP THEN 0 ELSE tick.pre_idle
       /\ pc = "loop" <=> tick.idle_check <= MAX_INTERVAL
       /\ pc # "loop" => (pc = "raised" /\ raised = "TimeoutError")
  /\ (tick.ran /\ tick.fail = "none" /\ tick.read = NoButtons) =>
       /\ tick.pre = FORWARD =>
            /\ tick.calls = <<RollStop(tick.pre_angle)>>
            /\ state = STOP
       /\ tick.pre = STOP =>
            /\ tick.calls = <<>>
            /\ state = STOP

\* forward was held for at least two ticks and has now been released
C13_Witness ==
  /\ tick.ran /\ tick.fail = "none"
  /\ tick.read = NoButtons /\ tick.pre = FORWARD
  /\ tick.pre_idle >= 2 * TickLen
  /\ tick.calls = <<RollStop(tick.pre_angle)>>
  /\ state = STOP

Ended == pc \in {"returned", "raised"}

\* C14: an Exception raised in a tick (button read or actuator call) breaks
\* the loop: the failing call is the last actuator call, the watchdog is not
\* reached, Terminated is displayed, main returns without the exception,
\* and no tick follows.
C14_ExceptionEndsSession ==
  /\ [](tick.exit = "exception" =>
          /\ pc = "returned" /\ raised = "none"
          /\ display[Len(display)] = "Terminated"
          /\ ~tick.checked /\ ~tick.released
          /\ tick.fail = "button" => tick.calls = <<>>
          /\ tick.fail = "actuator" => Len(tick.calls) = 1)
  /\ [][Ended => UNCHANGED vars]_vars

\* the toy failed on the forward roll_start, with backward pressed as well
\* or not: nothing was sent after it and main returned
C14_Witness ==
  /\ tick.exit = "exception" /\ tick.fail = "actuator"
  /\ tick.read.forward
  /\ Len(tick.calls) = 1 /\ tick.calls[1].by = "forward"
  /\ pc = "returned"

\* C15: a tick that starts in STOP with a translational and a rotational
\* button pressed acquires the translational intent, denies the rotation,
\* leaves the heading and issues no roll_start with speed 0, whichever
\* intent won earlier ticks.
C15_TranslationWinsTie ==
  (/\ tick.ran /\ tick.pre = STOP
   /\ tick.read.forward \/ tick.read.backward
   /\ tick.read.cw \/ tick.read.acw)
  => /\ state = IF tick.read.forward THEN FORWARD ELSE BACKWARD
     /\ angle = tick.pre_angle
     /\ tick.turn = "none"
     /\ tick.read.cw => tick.acq.cw = <<FALSE, FALSE>>
     /\ tick.read.acw => tick.acq.acw = <<FALSE, FALSE>>
     /\ \A i \in 1..Len(tick.calls) :
          ~(tick.calls[i].op = "roll_start" /\ tick.calls[i].speed = 0)

\* an earlier tick turned the toy; after the release backward and acw are
\* pressed together and BACKWARD wins
C15_Witness ==
  /\ tick.ran /\ tick.pre = STOP /\ tick.pre_angle # 0
  /\ tick.read.backward /\ ~tick.read.forward /\ tick.read.acw
  /\ tick.acq.acw = <<FALSE, FALSE>>
  /\ state = BACKWARD /\ angle = tick.pre_angle

\* C16: a tick changes the stored heading only if CW_ROTATE or ACW_ROTATE is
\* held after it; with FORWARD, BACKWARD or STOP held the heading stays,
\* also when backward commands (heading + 180) mod 360.
C16_HeadingFrame ==
  tick.ran =>
    /\ angle # tick.pre_angle => state \in {CW_ROTATE, ACW_ROTATE}
    /\ tick.turn = "none" => angle = tick.pre_angle
    /\ \A i \in CallsBy("backward") :
         tick.calls[i].heading = (tick.pre_angle + 180) % 360

\* a backward tick at a turned heading commanded heading + 180 and kept the
\* heading
C16_Witness ==
  /\ tick.ran /\ state = BACKWARD /\ tick.pre_angle # 0
  /\ CallsBy("backward") # {}
  /\ angle = tick.pre_angle

OnlyAcw(b) ==
  b.acw /\ ~b.dash /\ ~b.forward /\ ~b.backward /\ ~b.cw

\* C17: from STOP a tick with only acw pressed acquires ACW_ROTATE, sets
\* the heading to (heading - ANGULAR_SPEED) mod 360 and issues
\* roll_start(new heading, 0); the heading goes down in every tick of the
\* hold; an acw press while another intent is held changes neither intent
\* nor heading and issues no call; k clockwise ticks followed by k
\* counter-clockwise ticks give the heading they started from.
C17_AcwMirrorsCw ==
  /\ (tick.ran /\ tick.fail = "none" /\ tick.read.acw) =>
       /\ (OnlyAcw(tick.read) /\ tick.pre = STOP) =>
            /\ state = ACW_ROTATE
            /\ tick.calls = <<RollStart("acw", angle, 0)>>
       /\ tick.pre = ACW_ROTATE => state = ACW_ROTATE
       /\ state = ACW_ROTATE =>
            /\ angle = (tick.pre_angle - ANGULAR_SPEED) % 360
            /\ \E i \in CallsBy("acw") :
                 tick.calls[i] = RollStart("acw", angle, 0)
       /\ state # ACW_ROTATE =>
            /\ tick.acq.acw = <<FALSE, FALSE>>
            /\ state = tick.pre \/ tick.pre = STOP
            /\ tick.turn # "acw"
            /\ ~tick.read.cw => angle = tick.pre_angle
            /\ CallsBy("acw") = {}
  /\ angle = (turns.origin + (turns.cw - turns.acw) * ANGULAR_SPEED) % 360
  /\ turns.cw = turns.acw => angle = turns.origin

\* three clockwise ticks from a heading other than 0, then three
\* counter-clockwise ticks: the heading is the one the sequence started at
C17_Witness ==
  /\ turns.cw = MaxAcw /\ turns.acw = MaxAcw /\ turns.origin # 0
  /\ state = ACW_ROTATE /\ tick.turn = "acw"
  /\ angle = turns.origin

AnyPressed(b) == b.dash \/ b.forward \/ b.backward \/ b.cw \/ b.acw

\* C18: over consecutive ticks the held intent never goes from one non-STOP
\* intent to another non-STOP intent, and a held intent stays held through
\* every tick in which some button is pressed, its own or not.
C18_NoSwitchWithoutStop ==
  [][/\ (state # STOP /\ state' # STOP) => state' = state
     /\ (pc = "loop" /\ state # STOP /\ AnyPressed(tick'.read))
          => state' = state]_vars

\* FORWARD stays held in a tick in which only cw and dash are pressed
C18_Witness ==
  /\ tick.ran /\ tick.pre = FORWARD /\ state = FORWARD
  /\ ~tick.read.forward /\ tick.read.cw /\ tick.read.dash
  /\ tick.acq.cw = <<FALSE, FALSE>>

BothPressed(b) == b.forward /\ b.backward

\* C19: skip_press_continue counts the ticks with forward and backward both
\* pressed and never goes down; the loop breaks exactly in the tick that
\* takes the count above SKIP_LIMIT (the 101st), whatever the watchdog would
\* say, before the release and watchdog steps: no roll_stop in that tick.
C19_SkipCounts ==
  tick.ran =>
    /\ skip_press_continue >= tick.pre_skip
    /\ tick.fail = "none" =>
         skip_press_continue =
           tick.pre_skip + (IF BothPressed(tick.read) THEN 1 ELSE 0)
    /\ tick.exit = "skip" <=>
         (tick.fail = "none" /\ BothPressed(tick.read)
            /\ tick.pre_skip = SKIP_LIMIT)
    /\ tick.exit = "skip" =>
         /\ pc = "returned"
         /\ ~tick.checked /\ ~tick.released
         /\ \A i \in 1..Len(tick.calls) : tick.calls[i].op # "roll_stop"
    /\ pc = "loop" => skip_press_continue <= SKIP_LIMIT

\* the break in the 101st tick, taken although the time since
\* last_controll_time is above MAX_INTERVAL
C19_Witness ==
  /\ tick.exit = "skip" /\ skip_press_continue = SKIP_LIMIT + 1
  /\ tick.pre_idle > MAX_INTERVAL
  /\ pc = "returned"

\* C20 as stated: after Scanning exactly one of Running and NotFound is
\* displayed on every path that got past the setup.
C20_ExactlyOneOutcome ==
  (Ended /\ display # <<>>) =>
    /\ Len(display) >= 2
    /\ display[2] \in {"Running", "NotFound"}

\* C20 as amended: Scanning is displayed first, then at most one of Running
\* and NotFound (neither when scanning or connecting raises another
\* exception than ToyNotFoundError, which reaches the caller), and
\* Terminated once and last on every path past the setup; ticks run only
\* between Running and Terminated; a setup failure reaches the caller with
\* nothing displayed and no tick run.
C20_DisplayOrder ==
  /\ [](/\ pc = "start" => display = <<>> /\ ~tick.ran
        /\ pc = "scanning" => display = <<"Scanning">> /\ ~tick.ran
        /\ pc = "loop" => display = <<"Scanning", "Running">>
        /\ Ended =>
             \/ /\ display = <<>> /\ ~tick.ran
                /\ pc = "raised" /\ raised = "ConnectionError"
             \/ /\ display = <<"Scanning", "Terminated">> /\ ~tick.ran
                /\ pc = "raised" /\ raised = "Exception"
             \/ /\ display = <<"Scanning", "NotFound", "Terminated">>
                /\ ~tick.ran /\ pc = "returned"
             \/ display = <<"Scanning", "Running", "Terminated">>
        /\ tick.ran => (Len(display) >= 2 /\ display[2] = "Running"))
  /\ [][Ended => UNCHANGED vars]_vars
  /\ [][tick' # tick => (pc = "loop" /\ display = <<"Scanning", "Running">>)]_vars

\* the loop ran and was left by the watchdog: Scanning, Running, Terminated
C20_Witness ==
  /\ tick.ran /\ tick.exit = "timeout"
  /\ display = <<"Scanning", "Running", "Terminated">>
  /\ pc = "raised"

=============================================================================
